---- MODULE Spec2Model ----
(***************************************************************************)
(* The CAN link configuration state machine of systemd-networkd            *)
(* (src/network/networkd-can.c): link_configure_can, link_down_handler,    *)
(* link_set_can and link_set_handler, driven by one single-threaded event  *)
(* loop.  Every handler runs to completion; the netlink transport and the  *)
(* generic link lifecycle (networkd-link.c) are the environment.           *)
(***************************************************************************)
EXTENDS Integers, Sequences, FiniteSets, TLC

(***************************************************************************)
(* Integer widths.  TLC's integers are 32 bits wide, so the 32-bit and the *)
(* 64-bit unsigned types of the program are modelled with U32Bits and      *)
(* 2 * U32Bits bits; every comparison the code makes against UINT32_MAX    *)
(* keeps its place relative to the values the model draws.                 *)
(***************************************************************************)
U32Bits == 10

UINT32_MAX == 2 ^ U32Bits - 1

UINT64_MAX == 2 ^ (2 * U32Bits) - 1

USEC_INFINITY == UINT64_MAX

USEC_PER_MSEC == 1000

CAN_TERMINATION_OHM_VALUE == 120

EEXIST == 17

ERANGE == 34

ENOMEM == 12

EBUSY == 16

\* __DIV_ROUND_UP of macro.h: the quotient, plus one when there is a remainder.
DIV_ROUND_UP(x, y) == (x \div y) + (IF x % y # 0 THEN 1 ELSE 0)

IFF_UP == "IFF_UP"

LINK_STATE_PENDING == "pending"

LINK_STATE_INITIALIZED == "initialized"

LINK_STATE_CONFIGURING == "configuring"

LINK_STATE_CONFIGURED == "configured"

LINK_STATE_UNMANAGED == "unmanaged"

LINK_STATE_FAILED == "failed"

LINK_STATE_LINGER == "linger"

CAN_CTRLMODE_FD == "CAN_CTRLMODE_FD"

CAN_CTRLMODE_FD_NON_ISO == "CAN_CTRLMODE_FD_NON_ISO"

CAN_CTRLMODE_3_SAMPLES == "CAN_CTRLMODE_3_SAMPLES"

CAN_CTRLMODE_BERR_REPORTING == "CAN_CTRLMODE_BERR_REPORTING"

CAN_CTRLMODE_LISTENONLY == "CAN_CTRLMODE_LISTENONLY"

\* link->kind is a string or NULL.
NULL == "NULL"

streq_ptr(a, b) == a = b /\ a # NULL

\* SET_FLAG(v, flag, b): the bit is set when b is non-zero and cleared otherwise.
SET_FLAG(v, flag, b) == IF b # 0 THEN v \cup {flag} ELSE v \ {flag}

(***************************************************************************)
(* The transport calls link_set_can makes on the message it builds, and    *)
(* the other calls of a handler that can fail.  The parameter fail of every *)
(* operator below names the one call that fails in this run of the handler *)
(* ("none": no call fails).                                                *)
(***************************************************************************)
BuildSteps ==
  { "sd_rtnl_message_new_link", "sd_netlink_message_set_flags",
    "open_container:IFLA_LINKINFO", "open_container:IFLA_INFO_DATA",
    "append:IFLA_CAN_BITTIMING", "append:IFLA_CAN_DATA_BITTIMING",
    "append:IFLA_CAN_RESTART_MS", "append:IFLA_CAN_CTRLMODE",
    "append:IFLA_CAN_TERMINATION",
    "close_container:IFLA_INFO_DATA", "close_container:IFLA_LINKINFO" }

FailPoints == BuildSteps \cup { "none", "netlink_call_async", "link_up", "link_down" }

(***************************************************************************)
(* The generic link lifecycle (networkd-link.c).  A link is a record       *)
(* [ifindex, state, kind, flags, network, n_ref].  A handler's run yields  *)
(* a record: link (the link afterwards), out (the requests it submitted,   *)
(* in order), ev (what it did, in the order the code does it) and r (its   *)
(* return value).                                                          *)
(***************************************************************************)
Ev(e, t) == [e |-> e, t |-> t]

\* Req with the callbacks' userdata always the first interface of the manager
\* instead of the interface the request is about.
Req_userdata_first_link(link, type, m) ==
  [ifindex |-> 1, type |-> type, attrs |-> m.attrs]

\* A request handed to netlink_call_async: ifindex stands for the userdata
\* (the Link) its callbacks receive.
Req(link, type, m) == [ifindex |-> link.ifindex, type |-> type, attrs |-> m.attrs]

NoMessage == [attrs |-> << >>]

Res(link, out, ev, r) == [link |-> link, out |-> out, ev |-> ev, r |-> r]

link_set_state(link, s) == [link EXCEPT !.state = s]

link_enter_failed(link) == [link EXCEPT !.state = LINK_STATE_FAILED]

link_ref(link) == [link EXCEPT !.n_ref = @ + 1]

link_unref(link) == [link EXCEPT !.n_ref = @ - 1]

\* The destroy callback of every request submitted for a link: it drops the
\* reference the submitter took.
link_netlink_destroy_callback(link) == link_unref(link)

\* link_up / link_down: build the RTM_SETLINK request, submit it with its
\* handler and the destroy callback, then take a reference.
link_up(link, fail) ==
  IF fail = "link_up"
  THEN Res(link, << >>, << Ev("call", "link_up") >>, -ENOMEM)
  ELSE Res(link_ref(link), << Req(link, "up", NoMessage) >>,
           << Ev("call", "link_up"), Ev("submit", "up"), Ev("link_ref", "up") >>, 0)

link_down(link, fail) ==
  IF fail = "link_down"
  THEN Res(link, << >>, << Ev("call", "link_down") >>, -ENOMEM)
  ELSE Res(link_ref(link), << Req(link, "down", NoMessage) >>,
           << Ev("call", "link_down"), Ev("submit", "down"), Ev("link_ref", "down") >>, 0)

\* can_ctrlmode_bits setting the bit in cm.flags for every tri-state that is
\* set, a false one included.
can_ctrlmode_bits_ignores_value(value, flag) ==
  IF value >= 0
  THEN [mask |-> {flag}, flags |-> {flag}]
  ELSE [mask |-> {}, flags |-> {}]

\* Lines 77, 137-147 and 170-186: struct can_ctrlmode cm starts zeroed; every
\* tri-state that is not unset (>= 0) sets its bit in cm.mask and sets or
\* clears it in cm.flags.
can_ctrlmode_bits(value, flag) ==
  IF value >= 0
  THEN [mask |-> {flag}, flags |-> SET_FLAG({}, flag, value)]
  ELSE [mask |-> {}, flags |-> {}]

can_ctrlmode_settings(network) ==
  { can_ctrlmode_bits(network.can_fd_mode, CAN_CTRLMODE_FD),
    can_ctrlmode_bits(network.can_non_iso, CAN_CTRLMODE_FD_NON_ISO),
    can_ctrlmode_bits(network.can_triple_sampling, CAN_CTRLMODE_3_SAMPLES),
    can_ctrlmode_bits(network.can_berr_reporting, CAN_CTRLMODE_BERR_REPORTING),
    can_ctrlmode_bits(network.can_listen_only, CAN_CTRLMODE_LISTENONLY) }

can_ctrlmode(network) ==
  [mask |-> UNION { b.mask : b \in can_ctrlmode_settings(network) },
   flags |-> UNION { b.flags : b \in can_ctrlmode_settings(network) }]

\* can_restart_ms without the case of USEC_INFINITY, dividing without
\* rounding up.
can_restart_ms_plain_division(network) ==
  network.can_restart_us \div USEC_PER_MSEC

\* Lines 149-156: the restart timeout in milliseconds, a 64-bit value.
can_restart_ms(network) ==
  IF network.can_restart_us = USEC_INFINITY THEN 0
  ELSE DIV_ROUND_UP(network.can_restart_us, USEC_PER_MSEC)

(***************************************************************************)
(* Lines 87-211 as the sequence of the transport calls the code makes, in  *)
(* the order it makes them: runs tells whether the call is made for this   *)
(* Parameter Store, erange whether the code returns -ERANGE just before    *)
(* making it (line 160), attr is what the call appends to the message.     *)
(***************************************************************************)
Call(step, runs, erange, attr) ==
  [step |-> step, runs |-> runs, erange |-> erange, attr |-> attr]

\* Lines 103-203: the five calls that append an attribute of the device.
can_bittiming_call(network) ==
  Call("append:IFLA_CAN_BITTIMING",
       network.can_bitrate > 0 \/ network.can_sample_point > 0, FALSE,
       << [type |-> "IFLA_CAN_BITTIMING",
           value |-> [bitrate |-> network.can_bitrate,
                      sample_point |-> network.can_sample_point]] >>)

can_data_bittiming_call(network) ==
  Call("append:IFLA_CAN_DATA_BITTIMING",
       network.can_data_bitrate > 0 \/ network.can_data_sample_point > 0, FALSE,
       << [type |-> "IFLA_CAN_DATA_BITTIMING",
           value |-> [bitrate |-> network.can_data_bitrate,
                      sample_point |-> network.can_data_sample_point]] >>)

can_restart_ms_call(network) ==
  Call("append:IFLA_CAN_RESTART_MS",
       network.can_restart_us > 0,
       can_restart_ms(network) > UINT32_MAX,
       << [type |-> "IFLA_CAN_RESTART_MS",
           value |-> can_restart_ms(network) % (UINT32_MAX + 1)] >>)

can_ctrlmode_call(network) ==
  Call("append:IFLA_CAN_CTRLMODE",
       can_ctrlmode(network).mask # {}, FALSE,
       << [type |-> "IFLA_CAN_CTRLMODE", value |-> can_ctrlmode(network)] >>)

can_termination_call(network) ==
  Call("append:IFLA_CAN_TERMINATION",
       network.can_termination >= 0, FALSE,
       << [type |-> "IFLA_CAN_TERMINATION",
           value |-> IF network.can_termination # 0
                     THEN CAN_TERMINATION_OHM_VALUE ELSE 0] >>)

\* can_calls appending the control mode before the restart timeout.
can_calls_ctrlmode_before_restart(link) ==
  << Call("sd_rtnl_message_new_link", TRUE, FALSE, << >>),
     Call("sd_netlink_message_set_flags", TRUE, FALSE, << >>),
     Call("open_container:IFLA_LINKINFO", TRUE, FALSE, << >>),
     Call("open_container:IFLA_INFO_DATA", TRUE, FALSE, << >>),
     can_bittiming_call(link.network),
     can_data_bittiming_call(link.network),
     can_ctrlmode_call(link.network),
     can_restart_ms_call(link.network),
     can_termination_call(link.network),
     Call("close_container:IFLA_INFO_DATA", TRUE, FALSE, << >>),
     Call("close_container:IFLA_LINKINFO", TRUE, FALSE, << >>) >>

can_calls(link) ==
  << Call("sd_rtnl_message_new_link", TRUE, FALSE, << >>),
     Call("sd_netlink_message_set_flags", TRUE, FALSE, << >>),
     Call("open_container:IFLA_LINKINFO", TRUE, FALSE, << >>),
     Call("open_container:IFLA_INFO_DATA", TRUE, FALSE, << >>),
     can_bittiming_call(link.network),
     can_data_bittiming_call(link.network),
     can_restart_ms_call(link.network),
     can_ctrlmode_call(link.network),
     can_termination_call(link.network),
     Call("close_container:IFLA_INFO_DATA", TRUE, FALSE, << >>),
     Call("close_container:IFLA_LINKINFO", TRUE, FALSE, << >>) >>

\* FirstFailure without the range check of line 160.
FirstFailure_no_range_check(calls, fail) ==
  LET bad == { i \in 1..Len(calls) : calls[i].runs /\ calls[i].step = fail }
  IN IF bad = {} THEN 0 ELSE CHOOSE i \in bad : \A j \in bad : i <= j

\* The first call that ends the construction (0: none does).
FirstFailure(calls, fail) ==
  LET bad == { i \in 1..Len(calls) :
                 calls[i].runs /\ (calls[i].erange \/ calls[i].step = fail) }
  IN IF bad = {} THEN 0 ELSE CHOOSE i \in bad : \A j \in bad : i <= j

RECURSIVE Appended_unconditionally(_, _)
\* Appended with every attribute appended, configured or not.
Appended_unconditionally(calls, n) ==
  IF n = 0 THEN << >>
  ELSE Appended_unconditionally(calls, n - 1) \o calls[n].attr

RECURSIVE Appended(_, _)
\* What the first n calls have appended to the message.
Appended(calls, n) ==
  IF n = 0 THEN << >>
  ELSE Appended(calls, n - 1) \o (IF calls[n].runs THEN calls[n].attr ELSE << >>)

\* The message when link_set_can reaches line 213, or the error it returns
\* before: r is the return value, failed the call that failed.
can_message(link, fail) ==
  LET calls == can_calls(link)
      k == FirstFailure(calls, fail)
  IN IF k = 0
     THEN [r |-> 0, failed |-> "none", ifindex |-> link.ifindex,
           container |-> << "IFLA_LINKINFO", "IFLA_INFO_DATA" >>, key |-> link.kind,
           attrs |-> Appended(calls, Len(calls))]
     ELSE [r |-> IF calls[k].erange THEN -ERANGE ELSE -ENOMEM,
           failed |-> IF calls[k].erange THEN "restart_ms" ELSE calls[k].step,
           ifindex |-> link.ifindex,
           container |-> << >>, key |-> link.kind,
           attrs |-> Appended(calls, k - 1)]

\* link_set_can calling link_up whatever the flags.
link_set_can_always_up(link, fail) ==
  LET m == can_message(link, fail)
      call == << Ev("call", "link_set_can") >>
  IN IF m.r < 0
     THEN Res(link, << >>, call \o << Ev("build_failed", m.failed) >>, m.r)
     ELSE IF fail = "netlink_call_async"
     THEN Res(link, << >>, call \o << Ev("submit_failed", "set") >>, -ENOMEM)
     ELSE LET u == link_up(link_ref(link), fail)
          IN Res(u.link, << Req(link, "set", m) >> \o u.out,
                 call \o << Ev("submit", "set"), Ev("link_ref", "set") >> \o u.ev, u.r)

\* link_set_can taking the reference before it submits the request, and
\* keeping it when the submission fails.
link_set_can_ref_before_submit(link, fail) ==
  LET m == can_message(link, fail)
      call == << Ev("call", "link_set_can") >>
  IN IF m.r < 0
     THEN Res(link, << >>, call \o << Ev("build_failed", m.failed) >>, m.r)
     ELSE IF fail = "netlink_call_async"
     THEN Res(link_ref(link), << >>,
              call \o << Ev("link_ref", "set"), Ev("submit_failed", "set") >>, -ENOMEM)
     ELSE IF IFF_UP \notin link.flags
          THEN LET u == link_up(link_ref(link), fail)
               IN Res(u.link, << Req(link, "set", m) >> \o u.out,
                      call \o << Ev("link_ref", "set"), Ev("submit", "set") >> \o u.ev, u.r)
          ELSE Res(link_ref(link), << Req(link, "set", m) >>,
                   call \o << Ev("link_ref", "set"), Ev("submit", "set") >>, 0)

\* link_set_can not looking at the result of the transport calls that build
\* the message (the range error apart): what was built is submitted.
link_set_can_submits_partial(link, fail) ==
  LET m == can_message(link, fail)
      call == << Ev("call", "link_set_can") >>
  IN IF m.r = -ERANGE
     THEN Res(link, << >>, call \o << Ev("build_failed", m.failed) >>, m.r)
     ELSE IF fail = "netlink_call_async"
     THEN Res(link, << >>, call \o << Ev("submit_failed", "set") >>, -ENOMEM)
     ELSE IF IFF_UP \notin link.flags
          THEN LET u == link_up(link_ref(link), fail)
               IN Res(u.link, << Req(link, "set", m) >> \o u.out,
                      call \o << Ev("submit", "set"), Ev("link_ref", "set") >> \o u.ev, u.r)
          ELSE Res(link_ref(link), << Req(link, "set", m) >>,
                   call \o << Ev("submit", "set"), Ev("link_ref", "set") >>, 0)

(***************************************************************************)
(* link_set_can, lines 75-224.                                             *)
(***************************************************************************)
link_set_can(link, fail) ==
  LET m == can_message(link, fail)
      call == << Ev("call", "link_set_can") >>
  IN IF m.r < 0
     THEN Res(link, << >>, call \o << Ev("build_failed", m.failed) >>, m.r)
     ELSE IF fail = "netlink_call_async"
     THEN Res(link, << >>, call \o << Ev("submit_failed", "set") >>, -ENOMEM)
     ELSE LET sent == << Req(link, "set", m) >>
              ev == call \o << Ev("submit", "set"), Ev("link_ref", "set") >>
              l1 == link_ref(link)
          IN IF IFF_UP \notin l1.flags
             THEN LET u == link_up(l1, fail)
                  IN Res(u.link, sent \o u.out, ev \o u.ev, u.r)
             ELSE Res(l1, sent, ev, 0)

\* link_set_handler bringing the interface up on a successful reply.
link_set_handler_brings_up(link, m_errno) ==
  IF link.state \in {LINK_STATE_FAILED, LINK_STATE_LINGER}
  THEN Res(link, << >>, << >>, 1)
  ELSE IF m_errno < 0 /\ m_errno # -EEXIST
       THEN Res(link_enter_failed(link), << >>, << Ev("call", "link_enter_failed") >>, 1)
       ELSE IF IFF_UP \notin link.flags
            THEN LET u == link_up(link, "none") IN Res(u.link, u.out, u.ev, 1)
            ELSE Res(link, << >>, << >>, 1)

\* link_set_handler without the check of line 60.
link_set_handler_no_state_check(link, m_errno) ==
  IF m_errno < 0 /\ m_errno # -EEXIST
  THEN Res(link_enter_failed(link), << >>, << Ev("call", "link_enter_failed") >>, 1)
  ELSE Res(link, << >>, << >>, 1)

\* link_set_handler taking -EEXIST for a failure, as link_down_handler does.
link_set_handler_eexist_fails(link, m_errno) ==
  IF link.state \in {LINK_STATE_FAILED, LINK_STATE_LINGER}
  THEN Res(link, << >>, << >>, 1)
  ELSE IF m_errno < 0
       THEN Res(link_enter_failed(link), << >>, << Ev("call", "link_enter_failed") >>, 1)
       ELSE Res(link, << >>, << >>, 1)

(***************************************************************************)
(* link_set_handler, lines 55-73: m_errno is what                          *)
(* sd_netlink_message_get_errno returns for the reply.                     *)
(***************************************************************************)
link_set_handler(link, m_errno) ==
  IF link.state \in {LINK_STATE_FAILED, LINK_STATE_LINGER}
  THEN Res(link, << >>, << >>, 1)
  ELSE IF m_errno < 0 /\ m_errno # -EEXIST
       THEN Res(link_enter_failed(link), << >>, << Ev("call", "link_enter_failed") >>, 1)
       ELSE Res(link, << >>, << >>, 1)

\* link_down_handler going on to link_set_can whatever the reply.
link_down_handler_ignores_errno(link, m_errno, fail) ==
  IF link.state \in {LINK_STATE_FAILED, LINK_STATE_LINGER}
  THEN Res(link, << >>, << >>, 1)
  ELSE LET s == link_set_can(link, fail)
       IN IF s.r < 0
          THEN Res(link_enter_failed(s.link), s.out,
                   s.ev \o << Ev("call", "link_enter_failed") >>, 1)
          ELSE Res(s.link, s.out, s.ev, 1)

(***************************************************************************)
(* link_down_handler, lines 226-246.                                       *)
(***************************************************************************)
link_down_handler(link, m_errno, fail) ==
  IF link.state \in {LINK_STATE_FAILED, LINK_STATE_LINGER}
  THEN Res(link, << >>, << >>, 1)
  ELSE IF m_errno < 0
       THEN Res(link_enter_failed(link), << >>, << Ev("call", "link_enter_failed") >>, 1)
       ELSE LET s == link_set_can(link, fail)
            IN IF s.r < 0
               THEN Res(link_enter_failed(s.link), s.out,
                        s.ev \o << Ev("call", "link_enter_failed") >>, 1)
               ELSE Res(s.link, s.out, s.ev, 1)

\* link_up_handler of networkd-link.c: a failed reply is only logged.
link_up_handler(link, m_errno) == Res(link, << >>, << >>, 1)

\* link_configure_can returning link_down's error without failing the link.
link_configure_can_keeps_down_error(link, fail) ==
  LET l0 == link_set_state(link, LINK_STATE_CONFIGURING)
      Failed(s) == Res(link_enter_failed(s.link), s.out,
                       s.ev \o << Ev("call", "link_enter_failed") >>, s.r)
  IN IF streq_ptr(l0.kind, "can")
     THEN IF IFF_UP \in l0.flags
          THEN link_down(l0, fail)
          ELSE LET s == link_set_can(l0, fail)
               IN IF s.r < 0 THEN Failed(s) ELSE Res(s.link, s.out, s.ev, 0)
     ELSE IF IFF_UP \notin l0.flags
          THEN LET u == link_up(l0, fail)
               IN IF u.r < 0 THEN Failed(u) ELSE Res(u.link, u.out, u.ev, 0)
          ELSE Res(l0, << >>, << >>, 0)

\* link_configure_can returning at once for an interface that is terminal.
link_configure_can_checks_state(link, fail) ==
  LET l0 == link_set_state(link, LINK_STATE_CONFIGURING)
      Failed(s) == Res(link_enter_failed(s.link), s.out,
                       s.ev \o << Ev("call", "link_enter_failed") >>, s.r)
  IN IF link.state \in {LINK_STATE_FAILED, LINK_STATE_LINGER}
     THEN Res(link, << >>, << >>, 0)
     ELSE IF streq_ptr(l0.kind, "can")
     THEN IF IFF_UP \in l0.flags
          THEN LET d == link_down(l0, fail)
               IN IF d.r < 0 THEN Failed(d) ELSE Res(d.link, d.out, d.ev, 0)
          ELSE LET s == link_set_can(l0, fail)
               IN IF s.r < 0 THEN Failed(s) ELSE Res(s.link, s.out, s.ev, 0)
     ELSE IF IFF_UP \notin l0.flags
          THEN LET u == link_up(l0, fail)
               IN IF u.r < 0 THEN Failed(u) ELSE Res(u.link, u.out, u.ev, 0)
          ELSE Res(l0, << >>, << >>, 0)

\* link_configure_can taking every "can" interface down first, whatever its flags.
link_configure_can_always_down(link, fail) ==
  LET l0 == link_set_state(link, LINK_STATE_CONFIGURING)
      Failed(s) == Res(link_enter_failed(s.link), s.out,
                       s.ev \o << Ev("call", "link_enter_failed") >>, s.r)
  IN IF streq_ptr(l0.kind, "can")
     THEN LET d == link_down(l0, fail)
          IN IF d.r < 0 THEN Failed(d) ELSE Res(d.link, d.out, d.ev, 0)
     ELSE IF IFF_UP \notin l0.flags
          THEN LET u == link_up(l0, fail)
               IN IF u.r < 0 THEN Failed(u) ELSE Res(u.link, u.out, u.ev, 0)
          ELSE Res(l0, << >>, << >>, 0)

\* link_configure_can comparing the kind with strcmp-like equality only on
\* its first letters, so that "vcan" interfaces take the CAN path too.
link_configure_can_any_kind(link, fail) ==
  LET l0 == link_set_state(link, LINK_STATE_CONFIGURING)
      Failed(s) == Res(link_enter_failed(s.link), s.out,
                       s.ev \o << Ev("call", "link_enter_failed") >>, s.r)
  IN IF l0.kind # NULL
     THEN IF IFF_UP \in l0.flags
          THEN LET d == link_down(l0, fail)
               IN IF d.r < 0 THEN Failed(d) ELSE Res(d.link, d.out, d.ev, 0)
          ELSE LET s == link_set_can(l0, fail)
               IN IF s.r < 0 THEN Failed(s) ELSE Res(s.link, s.out, s.ev, 0)
     ELSE IF IFF_UP \notin l0.flags
          THEN LET u == link_up(l0, fail)
               IN IF u.r < 0 THEN Failed(u) ELSE Res(u.link, u.out, u.ev, 0)
          ELSE Res(l0, << >>, << >>, 0)

(***************************************************************************)
(* link_configure_can, lines 248-281.                                      *)
(***************************************************************************)
link_configure_can(link, fail) ==
  LET l0 == link_set_state(link, LINK_STATE_CONFIGURING)
      Failed(s) == Res(link_enter_failed(s.link), s.out,
                       s.ev \o << Ev("call", "link_enter_failed") >>, s.r)
  IN IF streq_ptr(l0.kind, "can")
     THEN IF IFF_UP \in l0.flags
          THEN LET d == link_down(l0, fail)
               IN IF d.r < 0 THEN Failed(d) ELSE Res(d.link, d.out, d.ev, 0)
          ELSE LET s == link_set_can(l0, fail)
               IN IF s.r < 0 THEN Failed(s) ELSE Res(s.link, s.out, s.ev, 0)
     ELSE IF IFF_UP \notin l0.flags
          THEN LET u == link_up(l0, fail)
               IN IF u.r < 0 THEN Failed(u) ELSE Res(u.link, u.out, u.ev, 0)
          ELSE Res(l0, << >>, << >>, 0)

(***************************************************************************)
(* The state.  link maps every interface index to its Link object; rtnl    *)
(* holds the requests in flight on the manager's netlink connection, in    *)
(* the order of their submission; called tells whether link_configure_can  *)
(* has been invoked for the interface.  log is the history of the handler  *)
(* runs of every interface, one record per run: the handler (op), the      *)
(* reply's error code (errno), the link before the handler (pre) and after *)
(* it and its destroy callback (post), the types of the requests it        *)
(* submitted (out) and what it did, in order (ev).                         *)
(***************************************************************************)
VARIABLES link, rtnl, called, log

vars == << link, rtnl, called, log >>

Kinds == { "can", "vcan", NULL }

\* What sd_netlink_message_get_errno can return for a reply.
ReplyCodes == { 0, -EEXIST, -EBUSY }

NetworkUnset ==
  [can_bitrate |-> 0, can_sample_point |-> 0,
   can_data_bitrate |-> 0, can_data_sample_point |-> 0,
   can_fd_mode |-> -1, can_non_iso |-> -1, can_triple_sampling |-> -1,
   can_berr_reporting |-> -1, can_listen_only |-> -1,
   can_restart_us |-> 0, can_termination |-> -1]

NetworkTypical ==
  [NetworkUnset EXCEPT !.can_bitrate = 500, !.can_sample_point = 875,
                       !.can_fd_mode = 1, !.can_listen_only = 0,
                       !.can_termination = 1]

\* Restart timeouts around the edges of the code's cases: unset, rounded up,
\* the largest that fits, the smallest that does not, the largest finite one
\* and the infinite sentinel.
RestartValues ==
  { 0, USEC_PER_MSEC + 1, UINT32_MAX * USEC_PER_MSEC,
    UINT32_MAX * USEC_PER_MSEC + 1, USEC_INFINITY - 1, USEC_INFINITY }

Networks ==
  { [n EXCEPT !.can_restart_us = us] : n \in { NetworkUnset, NetworkTypical },
                                       us \in RestartValues }

Step(op, m_errno, pre, res, post) ==
  [op |-> op, errno |-> m_errno, pre |-> pre, post |-> post,
   out |-> [i \in 1..Len(res.out) |-> res.out[i].type], ev |-> res.ev]

Remove(q, i) == SubSeq(q, 1, i - 1) \o SubSeq(q, i + 1, Len(q))

InitLinks(ids) ==
  /\ link \in { [i \in ids |-> [ifindex |-> i, state |-> LINK_STATE_INITIALIZED,
                                kind |-> k[i], flags |-> f[i],
                                network |-> n[i], n_ref |-> 1]] :
                k \in [ids -> Kinds], f \in [ids -> SUBSET {IFF_UP}],
                n \in [ids -> Networks] }
  /\ rtnl = << >>
  /\ called = [i \in ids |-> FALSE]
  /\ log = [i \in ids |-> << >>]

Init == InitLinks({1})

\* The caller's hook: link_configure_can is invoked once per interface.
Configure(l) ==
  /\ ~called[l]
  /\ \E fail \in FailPoints :
       LET res == link_configure_can(link[l], fail)
       IN /\ link' = [link EXCEPT ![l] = res.link]
          /\ rtnl' = rtnl \o res.out
          /\ log' = [log EXCEPT ![l] =
                       Append(@, Step("link_configure_can", 0, link[l], res, res.link))]
  /\ called' = [called EXCEPT ![l] = TRUE]

\* The reply to request i arrives: its handler runs, then its destroy callback.
Reply(i, op, res, m_errno) ==
  LET l == rtnl[i].ifindex
      post == link_netlink_destroy_callback(res.link)
  IN /\ link' = [link EXCEPT ![l] = post]
     /\ rtnl' = Remove(rtnl, i) \o res.out
     /\ log' = [log EXCEPT ![l] = Append(@, Step(op, m_errno, link[l], res, post))]
     /\ UNCHANGED called

ReplyDown(i) ==
  /\ rtnl[i].type = "down"
  /\ \E m_errno \in ReplyCodes, fail \in FailPoints :
       Reply(i, "link_down_handler",
             link_down_handler(link[rtnl[i].ifindex], m_errno, fail), m_errno)

ReplySet(i) ==
  /\ rtnl[i].type = "set"
  /\ \E m_errno \in ReplyCodes :
       Reply(i, "link_set_handler",
             link_set_handler(link[rtnl[i].ifindex], m_errno), m_errno)

ReplyUp(i) ==
  /\ rtnl[i].type = "up"
  /\ \E m_errno \in ReplyCodes :
       Reply(i, "link_up_handler",
             link_up_handler(link[rtnl[i].ifindex], m_errno), m_errno)

\* The kernel reports a change of the administrative flags (link_update_flags).
FlagsUpdate(l) ==
  /\ link' = [link EXCEPT ![l].flags =
                IF IFF_UP \in @ THEN @ \ {IFF_UP} ELSE @ \cup {IFF_UP}]
  /\ UNCHANGED << rtnl, called, log >>

\* Another subsystem fails the interface.
ExternalFail(l) ==
  /\ link[l].state \notin {LINK_STATE_FAILED, LINK_STATE_LINGER}
  /\ link' = [link EXCEPT ![l] = link_enter_failed(@)]
  /\ UNCHANGED << rtnl, called, log >>

\* The interface is removed (link_drop): it lingers until its last reference
\* is gone.
ExternalLinger(l) ==
  /\ link[l].state # LINK_STATE_LINGER
  /\ link' = [link EXCEPT ![l] = link_set_state(@, LINK_STATE_LINGER)]
  /\ UNCHANGED << rtnl, called, log >>

Next ==
  \/ \E l \in DOMAIN link : Configure(l)
  \/ \E i \in 1..Len(rtnl) : ReplyDown(i)
  \/ \E i \in 1..Len(rtnl) : ReplySet(i)
  \/ \E i \in 1..Len(rtnl) : ReplyUp(i)
  \/ \E l \in DOMAIN link : FlagsUpdate(l)
  \/ \E l \in DOMAIN link : ExternalFail(l)
  \/ \E l \in DOMAIN link : ExternalLinger(l)

Spec == Init /\ [][Next]_vars

(***************************************************************************)
(* Two interfaces configured on the same event loop and the same netlink   *)
(* connection: the replies arrive in any order.                            *)
(***************************************************************************)
NetworksTwo ==
  { NetworkTypical,
    [NetworkUnset EXCEPT !.can_restart_us = UINT32_MAX * USEC_PER_MSEC + 1] }

InitTwo ==
  /\ link \in { [i \in {1, 2} |-> [ifindex |-> i, state |-> LINK_STATE_INITIALIZED,
                                   kind |-> k[i], flags |-> f[i],
                                   network |-> n[i], n_ref |-> 1]] :
                k \in [{1, 2} -> { "can", "vcan" }],
                f \in [{1, 2} -> SUBSET {IFF_UP}],
                n \in [{1, 2} -> NetworksTwo] }
  /\ rtnl = << >>
  /\ called = [i \in {1, 2} |-> FALSE]
  /\ log = [i \in {1, 2} |-> << >>]

NextTwo ==
  \/ \E l \in DOMAIN link : Configure(l)
  \/ \E i \in 1..Len(rtnl) : ReplyDown(i)
  \/ \E i \in 1..Len(rtnl) : ReplySet(i)
  \/ \E i \in 1..Len(rtnl) : ReplyUp(i)
  \/ \E l \in DOMAIN link : ExternalFail(l)

SpecTwo == InitTwo /\ [][NextTwo]_vars

(***************************************************************************)
(* config_parse_can_bitrate, lines 15-53.  The text is a sequence of       *)
(* characters.  parse_size is the size parser of parse-util: a decimal     *)
(* number followed by at most one of the suffixes K, M, G, each a power of *)
(* the given base; it returns -EINVAL for any other text and -ERANGE when  *)
(* the value does not fit in 64 bits.                                      *)
(***************************************************************************)
EINVAL == 22

Digits == << "0", "1", "2", "3", "4", "5", "6", "7", "8", "9" >>

IsDigit(c) == \E d \in DOMAIN Digits : Digits[d] = c

DigitValue(c) == (CHOOSE d \in DOMAIN Digits : Digits[d] = c) - 1

Suffixes == << "K", "M", "G" >>

\* The number of digits rvalue starts with.
DigitsLen(rvalue) ==
  Cardinality({ n \in 1..Len(rvalue) : \A k \in 1..n : IsDigit(rvalue[k]) })

RECURSIVE Decimal(_, _)
\* The value of the first n characters of rvalue, all digits, or
\* UINT64_MAX + 1 when it exceeds 64 bits (strtoull's ERANGE).
Decimal(rvalue, n) ==
  IF n = 0 THEN 0
  ELSE LET high == Decimal(rvalue, n - 1)
       IN IF high > (UINT64_MAX - DigitValue(rvalue[n])) \div 10
          THEN UINT64_MAX + 1
          ELSE high * 10 + DigitValue(rvalue[n])

RECURSIVE Scaled(_, _, _)
\* x multiplied by base, times times, or UINT64_MAX + 1 when it overflows.
Scaled(x, base, times) ==
  IF times = 0 \/ x = 0 THEN x
  ELSE IF x > UINT64_MAX \div base THEN UINT64_MAX + 1
       ELSE Scaled(x * base, base, times - 1)

parse_size(rvalue, base) ==
  LET n == DigitsLen(rvalue)
      rest == SubSeq(rvalue, n + 1, Len(rvalue))
      power == IF rest = << >> THEN 0
               ELSE CHOOSE k \in DOMAIN Suffixes : Suffixes[k] = rest[1]
  IN IF n = 0 \/ Len(rest) > 1
          \/ (Len(rest) = 1 /\ \A k \in DOMAIN Suffixes : Suffixes[k] # rest[1])
     THEN [r |-> -EINVAL, sz |-> 0]
     ELSE LET sz == Scaled(Decimal(rvalue, n), base, power)
          IN IF sz > UINT64_MAX THEN [r |-> -ERANGE, sz |-> 0]
             ELSE [r |-> 0, sz |-> sz]

\* config_parse_can_bitrate storing whatever parse_size returned, cast to
\* 32 bits, without the range check of line 44.
config_parse_can_bitrate_no_range_check(rvalue, br) ==
  LET p == parse_size(rvalue, 1000)
  IN IF p.r < 0
     THEN [r |-> 0, br |-> br, ev |-> << Ev("log_syntax", "parse") >>]
     ELSE [r |-> 0, br |-> p.sz % (UINT32_MAX + 1), ev |-> << >>]

\* br is the value of *data when the function returns.
config_parse_can_bitrate(rvalue, br) ==
  LET p == parse_size(rvalue, 1000)
  IN IF p.r < 0
     THEN [r |-> 0, br |-> br, ev |-> << Ev("log_syntax", "parse") >>]
     ELSE IF p.sz <= 0 \/ p.sz > UINT32_MAX
          THEN [r |-> 0, br |-> br, ev |-> << Ev("log_syntax", "range") >>]
          ELSE [r |-> 0, br |-> p.sz % (UINT32_MAX + 1), ev |-> << >>]

\* The lines of a configuration file: texts that are sizes within the range
\* of a bit rate, at its edges and beyond them, and texts that are no size.
RValues ==
  { << >>, << "0" >>, << "1" >>, << "5", "0", "0" >>, << "0", "K" >>,
    << "1", "K" >>, << "2", "K" >>, << "1", "0", "2", "3" >>,
    << "1", "0", "2", "4" >>, << "1", "M" >>, << "5", "M" >>, << "1", "G" >>,
    << "K" >>, << "x" >>, << "5", "x" >>, << "1", "K", "K" >>, << "-", "1" >>,
    << "9", "9", "9", "9", "9", "9", "9" >> }

\* The fields of the Parameter Store that hold a bit rate.
BitrateFields == { "can_bitrate", "can_data_bitrate" }

MaxParses == 2

InitParse ==
  /\ link = [i \in {1} |-> [ifindex |-> i, state |-> LINK_STATE_PENDING,
                            kind |-> "can", flags |-> {},
                            network |-> NetworkUnset, n_ref |-> 1]]
  /\ rtnl = << >>
  /\ called = [i \in {1} |-> FALSE]
  /\ log = [i \in {1} |-> << >>]

\* The configuration loader meets a bit-rate key: data points to the field.
ConfigParse(l) ==
  /\ Len(log[l]) < MaxParses
  /\ \E data \in BitrateFields, rvalue \in RValues :
       LET res == config_parse_can_bitrate(rvalue, link[l].network[data])
           post == [link[l] EXCEPT !.network[data] = res.br]
       IN /\ link' = [link EXCEPT ![l] = post]
          /\ log' = [log EXCEPT ![l] =
                       Append(@, [op |-> "config_parse_can_bitrate", data |-> data,
                                  rvalue |-> rvalue, r |-> res.r, ev |-> res.ev,
                                  pre |-> link[l], post |-> post])]
  /\ UNCHANGED << rtnl, called >>

NextParse ==
  \/ \E l \in DOMAIN link : ConfigParse(l)

SpecParse == InitParse /\ [][NextParse]_vars

(***************************************************************************)
(* The message of link_set_can over a wide range of Parameter Stores: a    *)
(* "can" interface that is down is configured, so that link_configure_can  *)
(* runs link_set_can on the store.  StoresApply holds every assignment of  *)
(* the five tri-states (with and without the other settings) and every     *)
(* combination of the numeric settings and the termination (with and       *)
(* without tri-states).                                                    *)
(***************************************************************************)
TriState == { -1, 0, 1 }

TriStateStores ==
  { [n EXCEPT !.can_fd_mode = t[1], !.can_non_iso = t[2],
              !.can_triple_sampling = t[3], !.can_berr_reporting = t[4],
              !.can_listen_only = t[5], !.can_restart_us = us] :
      n \in { NetworkUnset, NetworkTypical },
      t \in [1..5 -> TriState],
      us \in { 0, USEC_PER_MSEC + 1 } }

RestartValuesApply == RestartValues \cup { 1, USEC_PER_MSEC, 2 * USEC_PER_MSEC - 1 }

NumericStores ==
  { [n EXCEPT !.can_bitrate = b[1], !.can_sample_point = b[2],
              !.can_data_bitrate = b[3], !.can_data_sample_point = b[4],
              !.can_restart_us = us, !.can_termination = t] :
      n \in { NetworkUnset, NetworkTypical },
      b \in { 0, 500 } \X { 0, 875 } \X { 0, 1000 } \X { 0, 750 },
      us \in RestartValuesApply,
      t \in TriState }

StoresApply == TriStateStores \cup NumericStores

InitApply ==
  /\ link \in { [i \in {1} |-> [ifindex |-> i, state |-> LINK_STATE_INITIALIZED,
                                kind |-> "can", flags |-> {},
                                network |-> n, n_ref |-> 1]] : n \in StoresApply }
  /\ rtnl = << >>
  /\ called = [i \in {1} |-> FALSE]
  /\ log = [i \in {1} |-> << >>]

NextApply ==
  \/ \E l \in DOMAIN link : Configure(l)
  \/ \E i \in 1..Len(rtnl) : ReplySet(i)

SpecApply == InitApply /\ [][NextApply]_vars

(***************************************************************************)
(* Reading the history.                                                    *)
(***************************************************************************)
Terminal == { LINK_STATE_FAILED, LINK_STATE_LINGER }

Has(seq, x) == \E i \in DOMAIN seq : seq[i] = x

Configured(l) == Len(log[l]) > 0

IsCan(l) == streq_ptr(link[l].kind, "can")

\* The flags link_configure_can found at entry.
UpAtEntry(l) == IFF_UP \in log[l][1].pre.flags

\* A run of a handler in which a call made by the code failed.
CallFailed(s) ==
  \/ \E i \in DOMAIN s.ev : s.ev[i].e \in { "build_failed", "submit_failed" }
  \/ Has(s.ev, Ev("call", "link_up")) /\ ~Has(s.ev, Ev("submit", "up"))
  \/ Has(s.ev, Ev("call", "link_down")) /\ ~Has(s.ev, Ev("submit", "down"))

ApplySuccess == { 0, -EEXIST }

(***************************************************************************)
(* C1.  For a "can" interface that is administratively up when             *)
(* link_configure_can is called, an "apply parameters" request is          *)
(* submitted only by the run of link_down_handler for a successful reply   *)
(* to a "down" request submitted before; when a "down" reply is a          *)
(* failure, no "apply parameters" request is submitted in the attempt.     *)
(***************************************************************************)
C1_ApplyOnlyAfterDownReply ==
  \A l \in DOMAIN link :
    (Configured(l) /\ IsCan(l) /\ UpAtEntry(l)) =>
      LET h == log[l]
      IN /\ \A i \in DOMAIN h :
              Has(h[i].out, "set") =>
                /\ h[i].op = "link_down_handler"
                /\ h[i].errno = 0
                /\ \E k \in 1..(i - 1) : Has(h[k].out, "down")
         /\ (\E j \in DOMAIN h : h[j].op = "link_down_handler" /\ h[j].errno < 0) =>
              \A i \in DOMAIN h : ~Has(h[i].out, "set")

C1_Witness ==
  \E l \in DOMAIN link :
    /\ Len(log[l]) >= 2 /\ IsCan(l) /\ UpAtEntry(l)
    /\ Has(log[l][1].out, "down")
    /\ log[l][2].op = "link_down_handler"
    /\ Has(log[l][2].out, "set")

(***************************************************************************)
(* C2, as claimed.  For a "can" interface no "bring up" request is         *)
(* submitted before the reply to the "apply parameters" request has been   *)
(* received and found successful.                                          *)
(***************************************************************************)
C2_UpOnlyAfterApplyReply ==
  \A l \in DOMAIN link :
    IsCan(l) =>
      \A i \in DOMAIN log[l] :
        Has(log[l][i].out, "up") =>
          \E j \in 1..i : /\ log[l][j].op = "link_set_handler"
                          /\ log[l][j].errno \in ApplySuccess

(***************************************************************************)
(* C2, amended.  For a "can" interface the "bring up" request is submitted *)
(* by link_set_can itself, in the run that submitted the "apply            *)
(* parameters" request and right after it, when the flags do not show      *)
(* IFF_UP at that moment; link_set_handler submits nothing, whatever the   *)
(* reply.  The "bring up" request therefore precedes the reply to the      *)
(* "apply parameters" request and does not depend on it.                   *)
(***************************************************************************)
C2_UpFollowsApplySubmission ==
  \A l \in DOMAIN link :
    IsCan(l) =>
      \A i \in DOMAIN log[l] :
        LET s == log[l][i]
        IN /\ Has(s.out, "up") =>
                /\ s.op \in { "link_configure_can", "link_down_handler" }
                /\ s.out = << "set", "up" >>
                /\ IFF_UP \notin s.pre.flags
           /\ s.op = "link_set_handler" => s.out = << >>

C2_Witness ==
  \E l \in DOMAIN link :
    /\ IsCan(l)
    /\ \E i, j \in DOMAIN log[l] :
         /\ i < j
         /\ Has(log[l][i].out, "up")
         /\ log[l][j].op = "link_set_handler"
         /\ log[l][j].errno = -EBUSY
         /\ log[l][j].pre.state = LINK_STATE_CONFIGURING

(***************************************************************************)
(* C3.  Once a successful "apply parameters" reply has arrived for a "can" *)
(* interface, "bring up" has been issued (link_up called) exactly once in  *)
(* the attempt if the flags did not show IFF_UP when link_set_can          *)
(* submitted the request, and never if they did; the request was          *)
(* submitted unless link_up itself failed.                                 *)
(***************************************************************************)
Places(h, P(_)) ==
  UNION { { << i, k >> : k \in { k \in DOMAIN P(h[i]) : TRUE } } : i \in DOMAIN h }

StepEv(s) == s.ev

StepOut(s) == s.out

UpCalls(h) ==
  Cardinality({ p \in Places(h, StepEv) : h[p[1]].ev[p[2]] = Ev("call", "link_up") })

UpSubmits(h) ==
  Cardinality({ p \in Places(h, StepOut) : h[p[1]].out[p[2]] = "up" })

C3_OneBringUp ==
  \A l \in DOMAIN link :
    IsCan(l) =>
      LET h == log[l]
      IN \A j \in DOMAIN h :
           (h[j].op = "link_set_handler" /\ h[j].errno \in ApplySuccess) =>
             \E i \in 1..(j - 1) :
               /\ Has(h[i].out, "set")
               /\ UpCalls(h) = (IF IFF_UP \in h[i].pre.flags THEN 0 ELSE 1)
               /\ UpSubmits(h) = (IF CallFailed(h[i]) THEN 0 ELSE UpCalls(h))

C3_Witness ==
  \E l \in DOMAIN link :
    /\ IsCan(l) /\ Configured(l) /\ UpAtEntry(l)
    /\ UpSubmits(log[l]) = 1
    /\ \E j \in DOMAIN log[l] :
         log[l][j].op = "link_set_handler" /\ log[l][j].errno = 0

(***************************************************************************)
(* C4.  A completion callback (link_down_handler, link_set_handler)        *)
(* entered while the interface is Failed or Lingering does nothing,        *)
(* whatever the reply's error code: it submits no request, calls nothing   *)
(* (link_enter_failed included) and leaves the interface's state, flags    *)
(* and configuration as they are; only its request's reference is dropped. *)
(***************************************************************************)
C4_StaleCallbackIsNoOp ==
  \A l \in DOMAIN link :
    \A i \in DOMAIN log[l] :
      LET s == log[l][i]
      IN (s.op \in { "link_down_handler", "link_set_handler" } /\ s.pre.state \in Terminal) =>
           /\ s.out = << >>
           /\ s.ev = << >>
           /\ s.post = [s.pre EXCEPT !.n_ref = @ - 1]

C4_Witness ==
  \E l \in DOMAIN link :
    \E j \in DOMAIN log[l] :
      /\ log[l][j].op = "link_set_handler"
      /\ log[l][j].pre.state = LINK_STATE_FAILED
      /\ log[l][j].errno = -EBUSY
      /\ link[l].state = LINK_STATE_FAILED

(***************************************************************************)
(* C5.  When link_set_handler runs on an interface that is not terminal:   *)
(* a reply code of 0 or -EEXIST leaves the interface's state as it is and  *)
(* link_enter_failed is not called; every other negative code moves the    *)
(* interface to Failed.                                                    *)
(***************************************************************************)
C5_ApplyReplyCodes ==
  \A l \in DOMAIN link :
    \A i \in DOMAIN log[l] :
      LET s == log[l][i]
      IN (s.op = "link_set_handler" /\ s.pre.state \notin Terminal) =>
           /\ s.errno \in ApplySuccess =>
                /\ s.post.state = s.pre.state
                /\ ~Has(s.ev, Ev("call", "link_enter_failed"))
           /\ (s.errno < 0 /\ s.errno # -EEXIST) => s.post.state = LINK_STATE_FAILED

C5_Witness ==
  \E l \in DOMAIN link :
    \E i, j \in DOMAIN log[l] :
      /\ log[l][i].op = "link_set_handler"
      /\ log[l][i].errno = -EEXIST
      /\ log[l][i].pre.state = LINK_STATE_CONFIGURING
      /\ log[l][i].post.state = LINK_STATE_CONFIGURING
      /\ log[l][j].op = "link_up_handler"

(***************************************************************************)
(* C6.  The "set device down" request fails: link_down returned an error,  *)
(* or the reply carries a negative code other than -EEXIST.                *)
(***************************************************************************)
DownSubmissionFailed(s) ==
  s.op = "link_configure_can" /\ Has(s.ev, Ev("call", "link_down"))
    /\ ~Has(s.ev, Ev("submit", "down"))

DownReplyFailed(s) ==
  s.op = "link_down_handler" /\ s.errno < 0 /\ s.errno # -EEXIST

NothingAfterDown(h) ==
  \A i \in DOMAIN h : ~Has(h[i].out, "set") /\ ~Has(h[i].out, "up")

(***************************************************************************)
(* C6, as claimed.  On the CAN path with the device up, when the "set      *)
(* device down" request fails the interface is Failed after the run that   *)
(* saw the failure, and neither "apply parameters" nor "bring up" is       *)
(* submitted in the attempt.                                               *)
(***************************************************************************)
C6_DownFailureEntersFailed ==
  \A l \in DOMAIN link :
    (Configured(l) /\ IsCan(l) /\ UpAtEntry(l)) =>
      \A i \in DOMAIN log[l] :
        (DownSubmissionFailed(log[l][i]) \/ DownReplyFailed(log[l][i])) =>
          /\ log[l][i].post.state = LINK_STATE_FAILED
          /\ NothingAfterDown(log[l])

(***************************************************************************)
(* C6, amended.  As claimed, except that a failed reply which arrives when *)
(* the interface is already terminal leaves its state as it is (Lingering  *)
(* stays Lingering): the interface enters Failed when link_down returns an *)
(* error, and when the failed reply finds it not terminal.  In every case  *)
(* neither "apply parameters" nor "bring up" is submitted.                 *)
(***************************************************************************)
C6_DownFailureEndsAttempt ==
  \A l \in DOMAIN link :
    (Configured(l) /\ IsCan(l) /\ UpAtEntry(l)) =>
      \A i \in DOMAIN log[l] :
        LET s == log[l][i]
        IN /\ DownSubmissionFailed(s) =>
                s.post.state = LINK_STATE_FAILED /\ NothingAfterDown(log[l])
           /\ DownReplyFailed(s) =>
                /\ s.post.state = (IF s.pre.state \in Terminal THEN s.pre.state
                                   ELSE LINK_STATE_FAILED)
                /\ NothingAfterDown(log[l])

C6_Witness ==
  \E l \in DOMAIN link :
    /\ IsCan(l) /\ Len(log[l]) = 2 /\ UpAtEntry(l)
    /\ DownReplyFailed(log[l][2])
    /\ log[l][2].pre.state = LINK_STATE_CONFIGURING
    /\ link[l].state = LINK_STATE_FAILED
    /\ rtnl = << >>

(***************************************************************************)
(* C7, as claimed.  link_configure_can invoked on an interface that is     *)
(* Failed or Lingering submits no request and leaves the state unchanged.  *)
(***************************************************************************)
C7_EntryChecksState ==
  \A l \in DOMAIN link :
    (Configured(l) /\ log[l][1].pre.state \in Terminal) =>
      /\ log[l][1].out = << >>
      /\ log[l][1].post.state = log[l][1].pre.state

(***************************************************************************)
(* C7, amended.  link_configure_can does not look at the lifecycle state:  *)
(* whatever the state at entry, terminal or not, it sets the state to      *)
(* Configuring and acts; afterwards the interface is Configuring, or       *)
(* Failed when a call it made failed, and a "can" interface whose calls    *)
(* succeeded has had a request submitted.  Only the completion callbacks   *)
(* check for a terminal state.                                             *)
(***************************************************************************)
C7_EntryIgnoresState ==
  \A l \in DOMAIN link :
    Configured(l) =>
      LET s == log[l][1]
      IN /\ s.op = "link_configure_can"
         /\ s.post.state = (IF CallFailed(s) THEN LINK_STATE_FAILED
                            ELSE LINK_STATE_CONFIGURING)
         /\ (IsCan(l) /\ ~CallFailed(s)) =>
               s.out # << >> /\ s.out[1] = (IF IFF_UP \in s.pre.flags THEN "down" ELSE "set")

C7_Witness ==
  \E l \in DOMAIN link :
    /\ Configured(l) /\ IsCan(l)
    /\ log[l][1].pre.state = LINK_STATE_FAILED
    /\ log[l][1].post.state = LINK_STATE_CONFIGURING
    /\ log[l][1].out = << "down" >>

(***************************************************************************)
(* C8.  References and requests in flight.  The interface starts with the  *)
(* one reference of its owner; InFlight counts its requests in rtnl.       *)
(***************************************************************************)
InFlight(l) == Cardinality({ i \in DOMAIN rtnl : rtnl[i].ifindex = l })

RefsMatchRequests ==
  \A l \in DOMAIN link :
    /\ link[l].n_ref = 1 + InFlight(l)
    /\ \A i \in DOMAIN log[l] :
         log[l][i].op = "link_set_handler" =>
           log[l][i].post.n_ref = log[l][i].pre.n_ref - 1

(***************************************************************************)
(* C8, as claimed.  For every "apply parameters" request the reference is  *)
(* taken before the request is submitted and released once after its       *)
(* callback, so that the references held equal the requests in flight.     *)
(***************************************************************************)
C8_RefTakenBeforeSubmit ==
  /\ RefsMatchRequests
  /\ \A l \in DOMAIN link :
       \A i \in DOMAIN log[l] :
         \A k \in DOMAIN log[l][i].ev :
           log[l][i].ev[k] = Ev("submit", "set") =>
             \E b \in 1..(k - 1) : log[l][i].ev[b] = Ev("link_ref", "set")

(***************************************************************************)
(* C8, amended.  For every "apply parameters" request the reference is     *)
(* taken right after the request has been submitted (in the same run of    *)
(* link_set_can, before control returns to the event loop) and only then:  *)
(* none is taken when the submission fails.  It is released once, by the   *)
(* destroy callback after link_set_handler has run.  Whenever the event    *)
(* loop is idle the references held equal the owner's one plus the         *)
(* requests in flight, also once the interface is Failed.                  *)
(***************************************************************************)
C8_RefTakenAfterSubmit ==
  /\ RefsMatchRequests
  /\ \A l \in DOMAIN link :
       \A i \in DOMAIN log[l] :
         LET ev == log[l][i].ev
         IN \A k \in DOMAIN ev :
              /\ ev[k] = Ev("submit", "set") =>
                   k < Len(ev) /\ ev[k + 1] = Ev("link_ref", "set")
              /\ ev[k] = Ev("link_ref", "set") =>
                   k > 1 /\ ev[k - 1] = Ev("submit", "set")

C8_Witness ==
  \E l \in DOMAIN link :
    /\ link[l].state = LINK_STATE_FAILED
    /\ link[l].n_ref = 2
    /\ \E i \in DOMAIN rtnl : rtnl[i].ifindex = l /\ rtnl[i].type = "set"
    /\ Has(log[l][Len(log[l])].ev, Ev("link_ref", "set"))

(***************************************************************************)
(* C9.  A restart timeout that is set, is not the infinite sentinel, and   *)
(* whose millisecond value (rounded up) does not fit in 32 bits.           *)
(***************************************************************************)
RestartTooBig(network) ==
  /\ network.can_restart_us > 0
  /\ network.can_restart_us # USEC_INFINITY
  /\ DIV_ROUND_UP(network.can_restart_us, USEC_PER_MSEC) > UINT32_MAX

(***************************************************************************)
(* C9, as claimed.  With such a timeout, whatever the administrative       *)
(* state at entry, the attempt of a "can" interface fails before any       *)
(* message is submitted and the interface is Failed when                   *)
(* link_configure_can returns.                                             *)
(***************************************************************************)
C9_RangeErrorBeforeAnyMessage ==
  \A l \in DOMAIN link :
    (Configured(l) /\ IsCan(l) /\ RestartTooBig(link[l].network)) =>
      /\ \A i \in DOMAIN log[l] : log[l][i].out = << >>
      /\ log[l][1].post.state = LINK_STATE_FAILED

(***************************************************************************)
(* C9, amended.  With such a timeout no "apply parameters" request (and no *)
(* "bring up" request) is ever submitted, so the value is never clamped or *)
(* truncated onto the wire, and every run of link_set_can fails and moves  *)
(* the interface to Failed.  With the device down at entry this happens in *)
(* link_configure_can, before any message is submitted.  With the device   *)
(* up at entry the "down" request is submitted first and the interface is  *)
(* Configuring when link_configure_can returns: the range error is found   *)
(* only by link_down_handler, when it runs for a successful reply on an    *)
(* interface that is not terminal.                                         *)
(***************************************************************************)
C9_RangeErrorBeforeApply ==
  \A l \in DOMAIN link :
    (Configured(l) /\ IsCan(l) /\ RestartTooBig(link[l].network)) =>
      LET h == log[l]
      IN /\ \A i \in DOMAIN h : ~Has(h[i].out, "set") /\ ~Has(h[i].out, "up")
         /\ \A i \in DOMAIN rtnl : rtnl[i].ifindex = l => rtnl[i].type = "down"
         /\ \A i \in DOMAIN h :
              Has(h[i].ev, Ev("call", "link_set_can")) =>
                /\ h[i].post.state = LINK_STATE_FAILED
                /\ \E k \in DOMAIN h[i].ev : h[i].ev[k].e = "build_failed"
         /\ ~UpAtEntry(l) =>
              h[1].out = << >> /\ h[1].post.state = LINK_STATE_FAILED
         /\ (UpAtEntry(l) /\ ~CallFailed(h[1])) =>
              h[1].out = << "down" >> /\ h[1].post.state = LINK_STATE_CONFIGURING

C9_Witness ==
  \E l \in DOMAIN link :
    /\ IsCan(l) /\ Len(log[l]) = 2 /\ UpAtEntry(l)
    /\ RestartTooBig(link[l].network)
    /\ log[l][2].op = "link_down_handler"
    /\ Has(log[l][2].ev, Ev("build_failed", "restart_ms"))
    /\ link[l].state = LINK_STATE_FAILED

(***************************************************************************)
(* C10.  When a transport call of link_set_can's message construction      *)
(* fails (allocation, flags, opening or closing a container, appending an  *)
(* attribute), that run submits no request ("apply parameters" or "bring   *)
(* up"), takes no reference, and the interface is Failed afterwards, from  *)
(* link_configure_can and from link_down_handler alike; every "apply       *)
(* parameters" request in flight carries the complete message of its       *)
(* interface's Parameter Store.                                            *)
(***************************************************************************)
BuildFailed(s) ==
  \E k \in DOMAIN s.ev : s.ev[k].e = "build_failed" /\ s.ev[k].t \in BuildSteps

C10_BuildFailureSubmitsNothing ==
  /\ \A l \in DOMAIN link :
       \A i \in DOMAIN log[l] :
         LET s == log[l][i]
         IN BuildFailed(s) =>
              /\ s.op \in { "link_configure_can", "link_down_handler" }
              /\ s.out = << >>
              /\ \A k \in DOMAIN s.ev : s.ev[k].e # "link_ref"
              /\ s.post.n_ref = s.pre.n_ref - (IF s.op = "link_down_handler" THEN 1 ELSE 0)
              /\ s.post.state = LINK_STATE_FAILED
  /\ \A i \in DOMAIN rtnl :
       rtnl[i].type = "set" =>
         LET calls == can_calls(link[rtnl[i].ifindex])
         IN rtnl[i].attrs = Appended(calls, Len(calls))

C10_Witness ==
  \E l \in DOMAIN link :
    /\ Len(log[l]) = 2
    /\ log[l][2].op = "link_down_handler"
    /\ Has(log[l][2].ev, Ev("build_failed", "append:IFLA_CAN_TERMINATION"))
    /\ link[l].state = LINK_STATE_FAILED
    /\ link[l].n_ref = 1

(***************************************************************************)
(* C11.  For a "can" interface that is administratively down when          *)
(* link_configure_can is called, link_configure_can runs link_set_can      *)
(* itself: the "apply parameters" request is the first request submitted   *)
(* (it is submitted unless a call of link_set_can fails before), and no    *)
(* "down" request is submitted at any point of the attempt.                *)
(***************************************************************************)
C11_ApplyDirectlyWhenDown ==
  \A l \in DOMAIN link :
    (Configured(l) /\ IsCan(l) /\ ~UpAtEntry(l)) =>
      LET h == log[l]
      IN /\ h[1].ev[1] = Ev("call", "link_set_can")
         /\ (~BuildFailed(h[1]) /\ ~Has(h[1].ev, Ev("build_failed", "restart_ms"))
               /\ ~Has(h[1].ev, Ev("submit_failed", "set"))) =>
              h[1].out # << >> /\ h[1].out[1] = "set"
         /\ \A i \in DOMAIN h :
              /\ ~Has(h[i].out, "down")
              /\ ~Has(h[i].ev, Ev("call", "link_down"))
              /\ h[i].op # "link_down_handler"
         /\ \A i \in DOMAIN rtnl : rtnl[i].ifindex = l => rtnl[i].type # "down"

C11_Witness ==
  \E l \in DOMAIN link :
    /\ IsCan(l) /\ Len(log[l]) = 3 /\ ~UpAtEntry(l)
    /\ log[l][1].out = << "set", "up" >>
    /\ log[l][2].op = "link_set_handler"
    /\ log[l][3].op = "link_up_handler"

(***************************************************************************)
(* C12.  For an interface whose kind is not "can" (an absent kind          *)
(* included) link_configure_can submits neither a "down" nor an "apply     *)
(* parameters" request.  When the flags show IFF_UP it does nothing more   *)
(* than set the state to Configuring; otherwise it calls link_up once,     *)
(* which submits one "up" request, and the interface enters Failed exactly *)
(* when that call returns an error.                                        *)
(***************************************************************************)
C12_OtherKindsOnlyBroughtUp ==
  \A l \in DOMAIN link :
    (Configured(l) /\ ~IsCan(l)) =>
      LET h == log[l]
          s == h[1]
      IN /\ \A i \in DOMAIN h : ~Has(h[i].out, "down") /\ ~Has(h[i].out, "set")
         /\ \A i \in DOMAIN h : i > 1 => (h[i].op = "link_up_handler" /\ h[i].out = << >>)
         /\ IFF_UP \in s.pre.flags =>
              /\ s.out = << >> /\ s.ev = << >>
              /\ s.post.state = LINK_STATE_CONFIGURING
         /\ IFF_UP \notin s.pre.flags =>
              /\ UpCalls(h) = 1
              /\ \/ s.out = << "up" >> /\ s.post.state = LINK_STATE_CONFIGURING
                 \/ /\ s.out = << >> /\ s.post.state = LINK_STATE_FAILED
                    /\ s.ev = << Ev("call", "link_up"), Ev("call", "link_enter_failed") >>

C12_Witness ==
  \E l \in DOMAIN link :
    /\ link[l].kind = NULL /\ Len(log[l]) = 2
    /\ IFF_UP \notin log[l][1].pre.flags
    /\ log[l][1].out = << "up" >>
    /\ log[l][2].op = "link_up_handler"
    /\ link[l].n_ref = 1

(***************************************************************************)
(* The "apply parameters" messages in flight, and what they carry.         *)
(***************************************************************************)
SetRequests == { i \in DOMAIN rtnl : rtnl[i].type = "set" }

AttrTypes(m) == { m.attrs[k].type : k \in DOMAIN m.attrs }

AttrValue(m, type) ==
  m.attrs[CHOOSE k \in DOMAIN m.attrs : m.attrs[k].type = type].value

\* The tri-states of the Parameter Store and the control-mode bit of each.
CtrlmodeFields ==
  { << "can_fd_mode", CAN_CTRLMODE_FD >>,
    << "can_non_iso", CAN_CTRLMODE_FD_NON_ISO >>,
    << "can_triple_sampling", CAN_CTRLMODE_3_SAMPLES >>,
    << "can_berr_reporting", CAN_CTRLMODE_BERR_REPORTING >>,
    << "can_listen_only", CAN_CTRLMODE_LISTENONLY >> }

(***************************************************************************)
(* C13.  In every "apply parameters" message that link_set_can submits,    *)
(* each attribute is present exactly when it is configured in the          *)
(* Parameter Store, and at most once: bit timing iff can_bitrate or        *)
(* can_sample_point is non-zero, data bit timing iff can_data_bitrate or   *)
(* can_data_sample_point is non-zero, control mode iff one of the five     *)
(* tri-states is not unset, restart timeout iff can_restart_us is          *)
(* non-zero, termination iff can_termination is not unset.  A store with   *)
(* nothing set yields a message whose info-data container is empty.        *)
(***************************************************************************)
C13_AttributePresentIffConfigured ==
  \A i \in SetRequests :
    LET m == rtnl[i]
        n == link[m.ifindex].network
        types == AttrTypes(m)
    IN /\ Len(m.attrs) = Cardinality(types)
       /\ types \subseteq { "IFLA_CAN_BITTIMING", "IFLA_CAN_DATA_BITTIMING",
                            "IFLA_CAN_CTRLMODE", "IFLA_CAN_RESTART_MS",
                            "IFLA_CAN_TERMINATION" }
       /\ "IFLA_CAN_BITTIMING" \in types <=>
            (n.can_bitrate # 0 \/ n.can_sample_point # 0)
       /\ "IFLA_CAN_DATA_BITTIMING" \in types <=>
            (n.can_data_bitrate # 0 \/ n.can_data_sample_point # 0)
       /\ "IFLA_CAN_CTRLMODE" \in types <=>
            (\E f \in CtrlmodeFields : n[f[1]] # -1)
       /\ "IFLA_CAN_RESTART_MS" \in types <=> n.can_restart_us # 0
       /\ "IFLA_CAN_TERMINATION" \in types <=> n.can_termination # -1
       /\ n = NetworkUnset => m.attrs = << >>

C13_Witness ==
  \E i \in SetRequests :
    LET n == link[rtnl[i].ifindex].network
    IN /\ AttrTypes(rtnl[i]) = { "IFLA_CAN_BITTIMING", "IFLA_CAN_RESTART_MS" }
       /\ n.can_bitrate = 0 /\ n.can_sample_point # 0
       /\ n.can_data_bitrate = 0 /\ n.can_data_sample_point = 0
       /\ n.can_termination = -1

(***************************************************************************)
(* C14, as claimed.  The attributes of the message are in the order bit    *)
(* timing, data bit timing, control mode, restart timeout, termination:    *)
(* the control mode precedes the restart timeout.                          *)
(***************************************************************************)
ClaimedOrder ==
  << "IFLA_CAN_BITTIMING", "IFLA_CAN_DATA_BITTIMING", "IFLA_CAN_CTRLMODE",
     "IFLA_CAN_RESTART_MS", "IFLA_CAN_TERMINATION" >>

InOrder(m, order) ==
  \A j, k \in DOMAIN m.attrs :
    j < k => \E a, b \in DOMAIN order :
               a < b /\ order[a] = m.attrs[j].type /\ order[b] = m.attrs[k].type

C14_CtrlmodeBeforeRestart ==
  \A i \in SetRequests : InOrder(rtnl[i], ClaimedOrder)

(***************************************************************************)
(* C14, corrected.  The attributes of the message are in the order bit     *)
(* timing, data bit timing, restart timeout, control mode, termination:    *)
(* the restart timeout precedes the control mode.                          *)
(***************************************************************************)
AppendOrder ==
  << "IFLA_CAN_BITTIMING", "IFLA_CAN_DATA_BITTIMING", "IFLA_CAN_RESTART_MS",
     "IFLA_CAN_CTRLMODE", "IFLA_CAN_TERMINATION" >>

C14_RestartBeforeCtrlmode ==
  \A i \in SetRequests : InOrder(rtnl[i], AppendOrder)

C14_Witness ==
  \E i \in SetRequests :
    /\ Len(rtnl[i].attrs) = 5
    /\ rtnl[i].attrs[3].type = "IFLA_CAN_RESTART_MS"
    /\ rtnl[i].attrs[4].type = "IFLA_CAN_CTRLMODE"

(***************************************************************************)
(* C15.  For every assignment of the five tri-states of which one at       *)
(* least is set, the control-mode attribute of the message has in its mask *)
(* exactly the bits of the tri-states that are not unset and in its flags  *)
(* exactly the bits of the tri-states that are true: the flags are within  *)
(* the mask and an unset tri-state contributes to neither.                 *)
(***************************************************************************)
C15_CtrlmodeMaskAndFlags ==
  \A i \in SetRequests :
    LET m == rtnl[i]
        n == link[m.ifindex].network
        set == { f \in CtrlmodeFields : n[f[1]] # -1 }
        true == { f \in CtrlmodeFields : n[f[1]] = 1 }
    IN set # {} =>
         /\ "IFLA_CAN_CTRLMODE" \in AttrTypes(m)
         /\ AttrValue(m, "IFLA_CAN_CTRLMODE").mask = { f[2] : f \in set }
         /\ AttrValue(m, "IFLA_CAN_CTRLMODE").flags = { f[2] : f \in true }
         /\ AttrValue(m, "IFLA_CAN_CTRLMODE").flags
              \subseteq AttrValue(m, "IFLA_CAN_CTRLMODE").mask

C15_Witness ==
  \E i \in SetRequests :
    LET n == link[rtnl[i].ifindex].network
    IN /\ n.can_fd_mode = 1 /\ n.can_non_iso = 0 /\ n.can_triple_sampling = -1
       /\ n.can_berr_reporting = 0 /\ n.can_listen_only = 1
       /\ AttrValue(rtnl[i], "IFLA_CAN_CTRLMODE") =
            [mask |-> { CAN_CTRLMODE_FD, CAN_CTRLMODE_FD_NON_ISO,
                        CAN_CTRLMODE_BERR_REPORTING, CAN_CTRLMODE_LISTENONLY },
             flags |-> { CAN_CTRLMODE_FD, CAN_CTRLMODE_LISTENONLY }]

(***************************************************************************)
(* C16.  With can_restart_us the infinite sentinel the construction does   *)
(* not end in the range error and the message carries the restart-timeout  *)
(* attribute with the value 0.  With any other non-zero can_restart_us     *)
(* whose number of milliseconds, rounded up, fits in 32 bits, there is no  *)
(* range error either and the attribute carries that number.               *)
(***************************************************************************)
MsRoundedUp(us) ==
  CHOOSE ms \in 0..(UINT64_MAX \div USEC_PER_MSEC + 1) :
    ms * USEC_PER_MSEC >= us /\ (ms = 0 \/ (ms - 1) * USEC_PER_MSEC < us)

RestartExpected(network) ==
  IF network.can_restart_us = USEC_INFINITY THEN 0
  ELSE MsRoundedUp(network.can_restart_us)

C16_RestartValue ==
  /\ \A i \in SetRequests :
       LET m == rtnl[i]
           n == link[m.ifindex].network
       IN (n.can_restart_us # 0 /\ RestartExpected(n) <= UINT32_MAX) =>
            /\ "IFLA_CAN_RESTART_MS" \in AttrTypes(m)
            /\ AttrValue(m, "IFLA_CAN_RESTART_MS") = RestartExpected(n)
  /\ \A l \in DOMAIN link :
       \A i \in DOMAIN log[l] :
         LET n == log[l][i].pre.network
         IN (n.can_restart_us # 0 /\ RestartExpected(n) <= UINT32_MAX) =>
              ~Has(log[l][i].ev, Ev("build_failed", "restart_ms"))

C16_Witness ==
  \E i \in SetRequests :
    /\ link[rtnl[i].ifindex].network.can_restart_us = USEC_INFINITY
    /\ AttrValue(rtnl[i], "IFLA_CAN_RESTART_MS") = 0
    /\ Has(log[rtnl[i].ifindex][1].ev, Ev("submit", "set"))

(***************************************************************************)
(* C17.  config_parse_can_bitrate stores exactly the parsed value in the   *)
(* field when the value is within 1 .. 2^32 - 1; when the text is          *)
(* unparsable, or the parsed value is 0 or above 2^32 - 1, the field keeps *)
(* the value it had; the function returns 0 in every case and touches no   *)
(* other field.  (32 bits are U32Bits bits here.)                          *)
(***************************************************************************)
\* What each text of RValues is as a size with suffixes of base 1000: the
\* text, whether it is a size that fits in 64 bits, and the size.
SizeOf ==
  { << << >>, FALSE, 0 >>, << << "0" >>, TRUE, 0 >>, << << "1" >>, TRUE, 1 >>,
    << << "5", "0", "0" >>, TRUE, 500 >>, << << "0", "K" >>, TRUE, 0 >>,
    << << "1", "K" >>, TRUE, 1000 >>, << << "2", "K" >>, TRUE, 2000 >>,
    << << "1", "0", "2", "3" >>, TRUE, 1023 >>,
    << << "1", "0", "2", "4" >>, TRUE, 1024 >>,
    << << "1", "M" >>, TRUE, 1000000 >>, << << "5", "M" >>, FALSE, 0 >>,
    << << "1", "G" >>, FALSE, 0 >>, << << "K" >>, FALSE, 0 >>,
    << << "x" >>, FALSE, 0 >>, << << "5", "x" >>, FALSE, 0 >>,
    << << "1", "K", "K" >>, FALSE, 0 >>, << << "-", "1" >>, FALSE, 0 >>,
    << << "9", "9", "9", "9", "9", "9", "9" >>, FALSE, 0 >> }

C17_BitrateStoredIffInRange ==
  \A l \in DOMAIN link :
    \A i \in DOMAIN log[l] :
      LET s == log[l][i]
      IN s.op = "config_parse_can_bitrate" =>
           \E e \in SizeOf :
             /\ e[1] = s.rvalue
             /\ s.r = 0
             /\ s.post = [s.pre EXCEPT !.network[s.data] =
                            IF e[2] /\ e[3] >= 1 /\ e[3] <= UINT32_MAX
                            THEN e[3] ELSE @]

C17_Witness ==
  \E l \in DOMAIN link :
    /\ Len(log[l]) = 2
    /\ log[l][1].rvalue = << "5", "0", "0" >> /\ log[l][1].data = "can_bitrate"
    /\ log[l][2].rvalue = << "2", "K" >> /\ log[l][2].data = "can_bitrate"
    /\ log[l][2].r = 0
    /\ link[l].network.can_bitrate = 500

(***************************************************************************)
(* C18, as claimed.  When the reply to the "set device down" request       *)
(* carries -EEXIST and the interface is not terminal, link_down_handler    *)
(* treats it as a success: it goes on to link_set_can, and the interface   *)
(* is Failed after the run only if link_set_can returned an error.         *)
(***************************************************************************)
C18_DownEexistIsSuccess ==
  \A l \in DOMAIN link :
    \A i \in DOMAIN log[l] :
      LET s == log[l][i]
      IN (s.op = "link_down_handler" /\ s.errno = -EEXIST
            /\ s.pre.state \notin Terminal) =>
           /\ Has(s.ev, Ev("call", "link_set_can"))
           /\ s.post.state = LINK_STATE_FAILED => CallFailed(s)

(***************************************************************************)
(* C19, as claimed.  For a "can" interface that is up at entry: once the   *)
(* "down" request and the "apply parameters" request have both been        *)
(* answered with success, no call of the attempt has failed and the        *)
(* interface has not been failed or removed, link_up has been called: the  *)
(* attempt does not end without a "bring up" request.                      *)
(***************************************************************************)
CycleSucceeded(l) ==
  /\ Configured(l) /\ IsCan(l) /\ UpAtEntry(l)
  /\ \E i \in DOMAIN log[l] :
       log[l][i].op = "link_down_handler" /\ log[l][i].errno = 0
  /\ \E i \in DOMAIN log[l] :
       log[l][i].op = "link_set_handler" /\ log[l][i].errno \in ApplySuccess
  /\ \A i \in DOMAIN log[l] :
       /\ ~CallFailed(log[l][i])
       /\ log[l][i].pre.state \notin Terminal
       /\ log[l][i].post.state \notin Terminal
  /\ link[l].state \notin Terminal

C19_CycleEndsWithBringUp ==
  \A l \in DOMAIN link : CycleSucceeded(l) => UpCalls(log[l]) >= 1

(***************************************************************************)
(* C20.  The attempts of two interfaces are independent.  Every run of a   *)
(* handler is a step of one interface l: it leaves the record              *)
(* (state, flags, reference count), the history and the requests in flight *)
(* of every other interface as they are, and what it does to l is what the *)
(* handler does when l is configured alone: the result of the handler on   *)
(* l's own record and the reply code of l's own request.  So for every     *)
(* interleaving each interface submits the same requests and ends in the   *)
(* same state as alone with the same replies, and a failure of one does    *)
(* not fail the other.                                                     *)
(***************************************************************************)
RequestsOf(q, l) ==
  LET Own(r) == r.ifindex = l IN SelectSeq(q, Own)

\* What handler op does alone on the record pre with reply code m_errno.
AloneResults(op, pre, m_errno) ==
  CASE op = "link_configure_can" ->
         { link_configure_can(pre, fail) : fail \in FailPoints }
    [] op = "link_down_handler" ->
         { link_down_handler(pre, m_errno, fail) : fail \in FailPoints }
    [] op = "link_set_handler" -> { link_set_handler(pre, m_errno) }
    [] op = "link_up_handler" -> { link_up_handler(pre, m_errno) }

AnsweredType(op) ==
  CASE op = "link_down_handler" -> "down"
    [] op = "link_set_handler" -> "set"
    [] op = "link_up_handler" -> "up"

StepOfOne(l) ==
  /\ \A o \in DOMAIN link \ {l} :
       /\ link'[o] = link[o] /\ log'[o] = log[o] /\ called'[o] = called[o]
       /\ RequestsOf(rtnl', o) = RequestsOf(rtnl, o)
  /\ Len(log'[l]) = Len(log[l]) + 1
  /\ LET e == log'[l][Len(log'[l])]
         own == RequestsOf(rtnl, l)
     IN /\ SubSeq(log'[l], 1, Len(log[l])) = log[l]
        /\ e.pre = link[l] /\ e.post = link'[l]
        /\ \E res \in AloneResults(e.op, e.pre, e.errno) :
             /\ e.ev = res.ev
             /\ e.out = [k \in 1..Len(res.out) |-> res.out[k].type]
             /\ \A k \in DOMAIN res.out : res.out[k].ifindex = l
             /\ IF e.op = "link_configure_can"
                THEN /\ ~called[l] /\ called'[l]
                     /\ e.post = res.link
                     /\ RequestsOf(rtnl', l) = own \o res.out
                ELSE /\ e.post = link_netlink_destroy_callback(res.link)
                     /\ \E k \in DOMAIN own :
                          /\ own[k].type = AnsweredType(e.op)
                          /\ RequestsOf(rtnl', l) = Remove(own, k) \o res.out

\* A failure from another subsystem concerns one interface.
EnvStepOfOne(l) ==
  /\ \A o \in DOMAIN link \ {l} : link'[o] = link[o]
  /\ UNCHANGED << rtnl, called, log >>

====
